---- MODULE Spec2Model ----
(***************************************************************************)
(* Verification model of the workshop notebooks: the stratified            *)
(* train/validation/test splitter of the bird-classification notebooks     *)
(* (split_to_train_val_test), download_artifacts of the local XGBoost lab  *)
(* and the run_test load generator of the autoscaling lab,                  *)
(* get_train_val_dataframes, which builds the frame the splitter is given, *)
(* the job table of the tuning analysis and the training loop of the bird  *)
(* notebook. Each has its own specification; the variables of the others   *)
(* stay at their idle values.                                              *)
(*                                                                         *)
(* A dataframe is a record [columns, rows]; a row carries its pandas index *)
(* label (idx), its identifier (image_file_name) and its label (class_id). *)
(* Ratios are numerators over RatioDen, so 0.7 is 14 and 0.95 is 19.       *)
(* Sample sizes are round half to even of the rational frac * len; the     *)
(* double-precision product of the code rounds to the same integer for     *)
(* every ratio of RatioSet and every group size up to 129 except 0.7 * 45  *)
(* and 0.7 * 85, which doubles put just below the tie (ProductBelowTie).   *)
(*                                                                         *)
(* Randomness is the process-global numpy generator: rng is its state,     *)
(* every permutation drawn is a function of that state and advances it.    *)
(***************************************************************************)
EXTENDS Integers, Sequences, FiniteSets

VARIABLES
    df,             \* the dataframe passed to split_to_train_val_test
    label_column,   \* the label_column argument
    splits,         \* the splits argument, numerators over RatioDen
    upsampleGuard,  \* TRUE on pandas builds whose sample() rejects frac > 1
    rng,            \* state of the process-global random generator
    calls,          \* what each completed call delivered to its caller
    TRAINING_JOB_NAME,  \* the notebook global of the local XGBoost lab
    localFiles,     \* the local file system: what each file name holds
    downloads,      \* the calls of download_artifacts made so far
    pc,             \* where the notebook's main thread is in run_test
    max_threads,    \* the arguments the load cell calls run_test with
    max_requests,
    mapFailFast,    \* TRUE where pool.map raises at the first failed chunk
    poolState,      \* "none" before ThreadPool(...), then "RUN", then "CLOSE"
    taskqueue,      \* the chunks of requests no worker has taken yet
    workers,        \* the pool's worker threads: how many are idle, how
                    \* many have exited, and the chunks of the busy ones
    result,         \* the MapResult that pool.map waits on
    inflight,       \* the requests the endpoint is serving, <<run, request>>
    issued,         \* how often predict was called for each request
    completed,      \* how the predict call of each request ended
    outOfOrder,     \* TRUE once a request ended before an earlier one
    runs,           \* how many run_test calls the cell has made
    outcome,        \* what the last run_test call gave its caller
    images_txt,     \* the rows of IMAGE_FILE: pretty name, file name
    labels_txt,     \* the rows of LABEL_FILE: pretty name, class id
    SAMPLE_ONLY,    \* the notebook parameter
    loaded,         \* what get_train_val_dataframes returned
    objective_type, \* the objective Type of the described tuning job
    analytics_df,   \* the rows tuner_analytics.dataframe() gives
    is_minimize,    \* the notebook variable, unbound before its cell ran
    jobs_df,        \* the notebook variable df of the tuning analysis
    trainloader,    \* len(trainloader), the batches of an epoch
    valloader,      \* len(valloader)
    trainPc,       \* "idle", "loop", "done" or "raised"
    epoch,          \* the loop variable of the outer loop
    batch,          \* how many batches of the epoch have been trained on
    steps,
    running_loss,
    train_losses,
    test_losses,
    test_accuracies,
    evals           \* the values of steps at which model.eval() was called

splitVars == <<df, label_column, splits, upsampleGuard, rng, calls>>

downloadVars == <<TRAINING_JOB_NAME, localFiles, downloads>>

poolVars ==
    <<pc, max_threads, max_requests, mapFailFast, poolState, taskqueue,
      workers, result, inflight, issued, completed, outOfOrder, runs, outcome>>

loaderVars == <<images_txt, labels_txt, SAMPLE_ONLY, loaded>>

tunerVars == <<objective_type, analytics_df, is_minimize, jobs_df>>

trainVars ==
    <<trainloader, valloader, trainPc, epoch, batch,
      steps, running_loss, train_losses, test_losses, test_accuracies, evals>>

vars == <<splitVars, downloadVars, poolVars, loaderVars, tunerVars, trainVars>>

JobNames == {"job-a", "job-b", "job-c"}

FileNames == {"tmp.tar.gz", "model.tar.gz"}

\* the local XGBoost lab before any download: no file written yet
NoDownloads ==
    /\ localFiles = [f \in FileNames |-> "absent"]
    /\ downloads = <<>>

\* the local XGBoost lab is not running
DownloadIdle == TRAINING_JOB_NAME = "job-a" /\ NoDownloads

\* the load cell before its first run_test call: no pool yet
NoPool ==
    /\ pc = "idle"
    /\ poolState = "none"
    /\ taskqueue = <<>>
    /\ workers = [idle |-> 0, busy |-> {}, exited |-> 0]
    /\ result = [number_left |-> 0, success |-> TRUE, value |-> <<>>, ready |-> FALSE]
    /\ inflight = {}
    /\ issued = <<>>
    /\ completed = <<>>
    /\ outOfOrder = FALSE
    /\ runs = 0
    /\ outcome = [status |-> "none"]

\* get_train_val_dataframes has not been called
NotLoaded == loaded = [status |-> "none", train |-> <<>>, val |-> <<>>, test |-> <<>>]

\* the bird notebook has no dataset
LoaderIdle == images_txt = <<>> /\ labels_txt = <<>> /\ SAMPLE_ONLY = TRUE /\ NotLoaded

\* the autoscaling lab is not running
PoolIdle == max_threads = 1 /\ max_requests = 0 /\ mapFailFast = TRUE /\ NoPool

\* the tuning analysis before its cells ran: is_minimize and df are unbound
NoAnalysis ==
    /\ is_minimize = [bound |-> FALSE, value |-> FALSE]
    /\ jobs_df = [bound |-> FALSE, rows |-> <<>>]

\* the tuning notebook is not running
TunerIdle == objective_type = "Maximize" /\ analytics_df = <<>> /\ NoAnalysis

\* the training cell before it runs
NotTraining ==
    /\ trainPc = "idle"
    /\ epoch = 0
    /\ batch = 0
    /\ steps = 0
    /\ running_loss = 0
    /\ train_losses = <<>>
    /\ test_losses = <<>>
    /\ test_accuracies = <<>>
    /\ evals = <<>>

\* the bird notebook is not training
TrainIdle ==
    /\ trainloader = 0
    /\ valloader = 0
    /\ NotTraining

----------------------------------------------------------------------------
(* Bounds of the model *)

MaxRows == 4
MaxClassSize == 12
MaxCalls == 2
RngMod == 16

RatioDen == 20

Labels == {"A", "B"}
LabelColumns == {"class_id", "species"}

\* splits=(0.7, 0.2, 0.1), the default and the notebook's SPLIT_RATIOS
SPLIT_RATIOS == <<14, 4, 2>>

\* The ratio triples the calls are made with: the default, sums of 0.95 and
\* 1.05, zero and negative components, fractions above 1.
RatioSet ==
    { SPLIT_RATIOS, <<14, 3, 2>>, <<15, 4, 2>>, <<20, 0, 0>>, <<10, 5, 5>>,
      <<10, 10, 0>>, <<10, 0, 10>>, <<0, 10, 10>>, <<-10, 15, 15>>,
      <<10, 15, -5>>, <<10, -2, 12>>, <<24, -2, -2>>, <<20, 2, -2>>,
      <<10, -5, 15>>, <<8, 6, 6>> }

----------------------------------------------------------------------------
(* Sequences *)

Range(s) == { s[i] : i \in DOMAIN s }

Count(r, s) == Cardinality({ i \in DOMAIN s : s[i] = r })

\* the positions of s in ascending order that are in the set pos
Ascending(pos) ==
    [k \in 1..Cardinality(pos) |->
        CHOOSE i \in pos : Cardinality({ j \in pos : j < i }) = k - 1]

\* the values of s at the positions order, in that order
At(s, order) == [k \in DOMAIN order |-> s[order[k]]]

\* Series.unique(): the distinct values in order of first appearance
Unique(s) ==
    At(s, Ascending({ i \in DOMAIN s : \A j \in 1..(i - 1) : s[j] # s[i] }))

----------------------------------------------------------------------------
(* Dataframes *)

Row(i, id, lbl) == [idx |-> i, image_file_name |-> id, class_id |-> lbl]

Frame(rows) == [columns |-> {"image_file_name", "class_id"}, rows |-> rows]

\* a frame whose index was reset: index labels 0 .. n-1
RangeFrame(lbls) == Frame([i \in 1..Len(lbls) |-> Row(i - 1, i, lbls[i])])

\* a frame built by concatenation without reset: index labels repeat in pairs
PairedFrame(lbls) == Frame([i \in 1..Len(lbls) |-> Row((i - 1) \div 2, i, lbls[i])])

SmallFrames ==
    UNION { { RangeFrame(l) : l \in [1..n -> Labels] } : n \in 0..MaxRows }
    \cup UNION { { PairedFrame(l) : l \in [1..n -> Labels] } : n \in 2..MaxRows }

\* a rows of class "A" followed by b rows of class "B", index reset
Blocks(a, b) == RangeFrame([i \in 1..(a + b) |-> IF i <= a THEN "A" ELSE "B"])

\* a class of 45 rows, where 0.7 * 45 is a tie in real arithmetic
TieFrames == { Blocks(45, 3) }

LargeFrames ==
    { Blocks(a, b) : a \in 1..MaxClassSize, b \in {0, 10} }
    \cup { Blocks(100, 0), Blocks(100, 3) }

UniqueIndex(d) ==
    \A i, j \in DOMAIN d.rows : d.rows[i].idx = d.rows[j].idx => i = j

IndexOf(rows) == { rows[i].idx : i \in DOMAIN rows }

\* the value a row holds in a column of the frame
Cell(r, col) == IF col = "class_id" THEN r.class_id ELSE r.image_file_name

\* df[df[label_column] == lbl]
SelectLabel(rows, col, lbl) == SelectSeq(rows, LAMBDA r : Cell(r, col) = lbl)

\* drop() that removes nothing
DropNothing(rows, labels) == rows

\* a drop that removes one row per index label, the first that carries it
DropFirstWithLabel(rows, labels) ==
    At(rows, Ascending({ i \in DOMAIN rows :
        ~(rows[i].idx \in labels /\ \A j \in 1..(i - 1) : rows[j].idx # rows[i].idx) }))

\* DataFrame.drop(index): every row whose index label is among labels goes
Drop(rows, labels) == SelectSeq(rows, LAMBDA r : r.idx \notin labels)

----------------------------------------------------------------------------
(* The random generator *)

\* the generator's next state
NextRng(g) == (5 * g + 3) % RngMod

\* an integer in 0 .. k-1 drawn from state g
Draw(g, k) == (g + g \div 4) % k

RECURSIVE RngStates(_, _)
\* the k successive states of the generator from g on: g, NextRng(g), ...
RngStates(g, k) ==
    IF k = 0 THEN <<>>
    ELSE IF k = 1 THEN <<g>>
    ELSE LET a == RngStates(g, k \div 2)
         IN  a \o RngStates(NextRng(a[Len(a)]), k - k \div 2)

RECURSIVE SwapsApplied(_, _, _, _)
\* where position k of the shuffled array comes from, through the swaps of
\* steps lo .. hi; step i swaps x[i] with x[j[i]]
SwapsApplied(j, lo, hi, k) ==
    IF lo > hi THEN k
    ELSE IF lo = hi THEN (IF k = lo THEN j[lo] ELSE IF k = j[lo] THEN lo ELSE k)
    ELSE LET mid  == (lo + hi) \div 2
             half == SwapsApplied(j, lo, mid, k)
         IN  IF half \in 1..hi
             THEN SwapsApplied(j, mid + 1, hi, half)
             ELSE half

\* the swap partner of every step: j[i] drawn from 1 .. i with the state
\* of step i, the steps running from n down to 2
Partners(n, st) == [i \in 1..n |-> 1 + Draw(st[n - i + 1], i)]

\* the permutation and the generator's state after its n - 1 draws
Shuffled(n, g, st) ==
    [perm |-> [k \in 1..n |-> SwapsApplied(Partners(n, st), 2, n, k)],
     rng  |-> IF n < 2 THEN g ELSE NextRng(st[n - 1])]

\* RandomState.permutation(n), a Fisher-Yates shuffle of 1 .. n: for i = n
\* down to 2, swap x[i] with x[j], j drawn from 1 .. i; one draw per step
Permutation(n, g) == Shuffled(n, g, RngStates(g, n))

----------------------------------------------------------------------------
(* DataFrame.sample(frac=...) *)

\* rounding up instead of to the nearest
RoundUp(num, den) ==
    IF den < 0
    THEN (IF (-num) % (-den) = 0 THEN (-num) \div (-den) ELSE ((-num) \div (-den)) + 1)
    ELSE (IF num % den = 0 THEN num \div den ELSE (num \div den) + 1)

\* the integer nearest to q + r/d, 0 <= r < d, ties to the even one
Nearest(q, r, d) ==
    IF 2 * r < d THEN q
    ELSE IF 2 * r > d THEN q + 1
    ELSE IF q % 2 = 0 THEN q ELSE q + 1

\* Python's round(): nearest integer, ties to the even one; num/den, den # 0
RoundHalfEven(num, den) ==
    IF den < 0
    THEN Nearest((-num) \div (-den), (-num) % (-den), -den)
    ELSE Nearest(num \div den, num % den, den)

\* frac > 1, for frac = num/den
FracAboveOne(num, den) == (den > 0 /\ num > den) \/ (den < 0 /\ num < den)

\* a sample size that truncates instead of rounding
SampleSizeTruncated(num, den, len) == (num * len) \div den

\* the products frac * len whose exact value is a tie k + 1/2, k odd, and
\* whose double is just below it: 0.7 * 45 is 31.499999999999996 and
\* 0.7 * 85 is 59.49999999999999
ProductBelowTie(num, den, len) == num = 14 /\ den = RatioDen /\ len \in {45, 85}

\* the sample size of real arithmetic
SampleSizeExact(num, den, len) == RoundHalfEven(num * len, den)

\* n = int(round(frac * axis_length)), the product taken in doubles
SampleSize(num, den, len) ==
    IF ProductBelowTie(num, den, len)
    THEN RoundHalfEven(num * len, den) - 1
    ELSE RoundHalfEven(num * len, den)

\* a sample() that refuses to take the whole population
SampleRejectedAtAll(len, n, above) == above \/ n < 0 \/ n >= len

\* a sample() over a generator that rejects an empty population
SampleRejectedIfEmpty(len, n, above) == above \/ n < 0 \/ n > len \/ len = 0

\* sample() raises ValueError when frac > 1 (builds with the guard), when
\* n < 0, and when n exceeds the population (choice without replacement).
\* Taking no row of an empty frame is allowed and gives an empty frame.
SampleRejected(len, n, above) == above \/ n < 0 \/ n > len

\* the rows at the first n positions of permutation p
Take(rows, n, p) ==
    [status |-> "ok", rows |-> [k \in 1..n |-> rows[p.perm[k]]], rng |-> p.rng]

\* rows.sample(n=n) once n is known
SampleN(rows, n, above, g) ==
    IF SampleRejected(Len(rows), n, above)
    THEN [status |-> "ValueError", rows |-> <<>>, rng |-> g]
    ELSE Take(rows, n, Permutation(Len(rows), g))

\* rows.sample(frac=num/den) with the generator in state g
Sample(rows, num, den, g, guard) ==
    SampleN(rows, SampleSize(num, den, Len(rows)), guard /\ FracAboveOne(num, den), g)

----------------------------------------------------------------------------
(* split_to_train_val_test *)

\* an exception leaves the function: the caller receives no dataframe
Raise(exc, g) ==
    [status |-> exc, train |-> <<>>, val |-> <<>>, test |-> <<>>, rng |-> g]

\* a lookup that takes an absent column for an empty one
LabelsLenient(d, col) ==
    IF col \in d.columns
    THEN [status |-> "ok",
          labels |-> Unique([i \in DOMAIN d.rows |-> Cell(d.rows[i], col)])]
    ELSE [status |-> "ok", labels |-> <<>>]

\* labels = df[label_column].unique(); KeyError when the column is absent
LabelsOf(d, col) ==
    IF col \in d.columns
    THEN [status |-> "ok",
          labels |-> Unique([i \in DOMAIN d.rows |-> Cell(d.rows[i], col)])]
    ELSE [status |-> "KeyError", labels |-> <<>>]

\* the validation share of the remainder sampled as the test subset
TestFracOfVal(s) == [num |-> s[2], den |-> s[2] + s[3]]

\* the test ratio taken of the remainder as if it were the whole group
TestFracOfWhole(s) == [num |-> s[3], den |-> RatioDen]

\* frac = splits[2] / (splits[1] + splits[2]), as numerator and denominator
TestFrac(s) == [num |-> s[3], den |-> s[2] + s[3]]

\* the train sample drawn with the validation ratio
TrainFracWrongIndex(s) == [num |-> s[2], den |-> RatioDen]

\* frac = splits[0]
TrainFrac(s) == [num |-> s[1], den |-> RatioDen]

\* lbl_val_df = lbl_val_and_test_df.drop(lbl_test_df.index), and the three
\* frames of the label appended to train_df, val_df, test_df
SplitVal(lbl_val_and_test_df, lbl_train_df, lbl_test_df, acc) ==
    IF lbl_test_df.status # "ok" THEN Raise(lbl_test_df.status, lbl_test_df.rng)
    ELSE [status |-> "ok",
          train  |-> acc.train \o lbl_train_df.rows,
          val    |-> acc.val \o Drop(lbl_val_and_test_df, IndexOf(lbl_test_df.rows)),
          test   |-> acc.test \o lbl_test_df.rows,
          rng    |-> lbl_test_df.rng]

\* lbl_test_df = lbl_val_and_test_df.sample(frac=splits[2]/(splits[1]+splits[2]))
SplitTest(lbl_val_and_test_df, lbl_train_df, frac, acc, guard) ==
    IF frac.den = 0 THEN Raise("ZeroDivisionError", lbl_train_df.rng)
    ELSE SplitVal(lbl_val_and_test_df, lbl_train_df,
                  Sample(lbl_val_and_test_df, frac.num, frac.den, lbl_train_df.rng, guard),
                  acc)

\* lbl_val_and_test_df = lbl_df.drop(lbl_train_df.index)
SplitRest(lbl_df, lbl_train_df, s, acc, guard) ==
    IF lbl_train_df.status # "ok" THEN Raise(lbl_train_df.status, lbl_train_df.rng)
    ELSE SplitTest(Drop(lbl_df, IndexOf(lbl_train_df.rows)), lbl_train_df,
                   TestFrac(s), acc, guard)

\* lbl_train_df = lbl_df.sample(frac=splits[0])
SplitTrain(lbl_df, s, acc, guard) ==
    SplitRest(lbl_df, Sample(lbl_df, TrainFrac(s).num, TrainFrac(s).den, acc.rng, guard),
              s, acc, guard)

\* One iteration of the loop over labels: the train sample, the rest, the
\* test sample out of the rest, validation what is left; each appended.
SplitLabel(rows, col, s, lbl, acc, guard) ==
    SplitTrain(SelectLabel(rows, col, lbl), s, acc, guard)

RECURSIVE SplitLoop(_, _, _, _, _, _, _)
\* for lbl in labels: ...
SplitLoop(rows, col, s, labels, i, acc, guard) ==
    IF i > Len(labels) \/ acc.status # "ok" THEN acc
    ELSE SplitLoop(rows, col, s, labels, i + 1,
                   SplitLabel(rows, col, s, labels[i], acc, guard), guard)

\* the value of the return statement once its three samples are drawn
ReturnFrames(train_df, val_df, test_df) ==
    IF train_df.status # "ok" THEN Raise(train_df.status, train_df.rng)
    ELSE IF val_df.status # "ok" THEN Raise(val_df.status, val_df.rng)
    ELSE IF test_df.status # "ok" THEN Raise(test_df.status, test_df.rng)
    ELSE [status |-> "ok", train |-> train_df.rows, val |-> val_df.rows,
          test |-> test_df.rows, rng |-> test_df.rng]

\* ..., test_df.sample(frac=1)
ShuffleTest(acc, train_df, val_df, guard) ==
    ReturnFrames(train_df, val_df, Sample(acc.test, 1, 1, val_df.rng, guard))

\* ..., val_df.sample(frac=1), ...
ShuffleVal(acc, train_df, guard) ==
    ShuffleTest(acc, train_df, Sample(acc.val, 1, 1, train_df.rng, guard), guard)

\* return train_df.sample(frac=1), ...: left to right, each a shuffle
ShuffleOut(acc, guard) ==
    IF acc.status # "ok" THEN acc
    ELSE ShuffleVal(acc, Sample(acc.train, 1, 1, acc.rng, guard), guard)

\* the function from the labels on
SplitLabels(labels, d, col, s, g, guard) ==
    IF labels.status # "ok" THEN Raise(labels.status, g)
    ELSE ShuffleOut(SplitLoop(d.rows, col, s, labels.labels, 1,
                              [status |-> "ok", train |-> <<>>, val |-> <<>>,
                               test |-> <<>>, rng |-> g], guard),
                    guard)

\* The whole function with the generator in state g: the three frames it
\* returns, each shuffled by sample(frac=1), or the exception it raises.
split_to_train_val_test(d, col, s, g, guard) ==
    SplitLabels(LabelsOf(d, col), d, col, s, g, guard)

\* the first row dropped from the caller's frame, as drop(inplace=True) would
InputDroppedInPlace(d) == [d EXCEPT !.rows = SelectSeq(d.rows, LAMBDA r : r # d.rows[1])]

\* The caller's dataframe after the call: every pandas operation of the
\* function returns a new frame, none works in place.
InputAfterCall(d) == d

----------------------------------------------------------------------------
(* The state machine *)

TypeOK ==
    /\ label_column \in LabelColumns
    /\ splits \in RatioSet
    /\ upsampleGuard \in BOOLEAN
    /\ rng \in 0..(RngMod - 1)
    /\ Len(calls) <= MaxCalls

InitCommon ==
    /\ upsampleGuard \in BOOLEAN
    /\ rng \in 0..(RngMod - 1)
    /\ calls = <<>>
    /\ DownloadIdle
    /\ PoolIdle
    /\ LoaderIdle
    /\ TunerIdle
    /\ TrainIdle

\* small frames of every shape, every ratio triple, either column name
Init ==
    /\ df \in SmallFrames \cup TieFrames
    /\ label_column \in LabelColumns
    /\ splits \in RatioSet
    /\ InitCommon

\* class-sized frames as get_train_val_dataframes passes them
InitLarge ==
    /\ df \in LargeFrames
    /\ label_column = "class_id"
    /\ splits = SPLIT_RATIOS
    /\ InitCommon

\* the caller receives the frames or the exception; the generator moved on
Deliver(out) ==
    /\ calls' = Append(calls, [status |-> out.status, train |-> out.train,
                               val |-> out.val, test |-> out.test])
    /\ rng' = out.rng

\* one call of split_to_train_val_test(df, label_column, splits)
Split ==
    /\ Len(calls) < MaxCalls
    /\ Deliver(split_to_train_val_test(df, label_column, splits, rng, upsampleGuard))
    /\ df' = InputAfterCall(df)
    /\ UNCHANGED <<label_column, splits, upsampleGuard>>
    /\ UNCHANGED <<downloadVars, poolVars, loaderVars, tunerVars, trainVars>>

Next == Split

Spec == Init /\ [][Next]_vars

SpecLarge == InitLarge /\ [][Next]_vars

----------------------------------------------------------------------------
(* download_artifacts of the local XGBoost lab *)

MaxDownloads == 2

\* the training jobs the SageMaker account has; "job-c" is not one of them
TrainingJobs == {"job-a", "job-b"}

\* response['ModelArtifacts']['S3ModelArtifacts'] of a job: an S3 URI, here
\* the sequence of its parts, scheme first
S3ModelArtifacts(job) ==
    IF job = "job-a"
    THEN <<"s3://", "bucket-1", "/", "xgb", "/", "job-a", "/", "model.tar.gz">>
    ELSE <<"s3://", "bucket-2", "/", job, "/", "model.tar.gz">>

\* sm_client.describe_training_job(TrainingJobName=name)
describe_training_job(name) ==
    IF name \in TrainingJobs
    THEN [status |-> "ok", job |-> name, uri |-> S3ModelArtifacts(name)]
    ELSE [status |-> "ClientError", job |-> name, uri |-> <<>>]

\* the end of the match of (?<=s3://).*?/ : the position of the first "/"
\* after the scheme
MatchEnd(uri) ==
    CHOOSE i \in 2..Len(uri) :
        uri[i] = "/" /\ \A j \in 2..(i - 1) : uri[j] # "/"

\* bucket_name = s.group()[:-1] and object_name = path[s.span()[1]:]
ParseS3Uri(uri) ==
    [bucket_name |-> SubSeq(uri, 2, MatchEnd(uri) - 1),
     object_name |-> SubSeq(uri, MatchEnd(uri) + 1, Len(uri))]

\* what a call leaves behind: the job it described and the object it fetched
Downloaded(job_name, local_fname, response, object) ==
    [job_name |-> job_name, local_fname |-> local_fname,
     status |-> response.status, described |-> response.job, fetched |-> object]

\* s3.download_file(bucket_name, object_name, local_fname), or the
\* ClientError of describe_training_job reaching the caller
Fetch(job_name, local_fname, response) ==
    IF response.status = "ok"
    THEN /\ localFiles' = [localFiles EXCEPT ![local_fname] = ParseS3Uri(response.uri)]
         /\ downloads' = Append(downloads,
                Downloaded(job_name, local_fname, response, ParseS3Uri(response.uri)))
    ELSE /\ localFiles' = localFiles
         /\ downloads' = Append(downloads,
                Downloaded(job_name, local_fname, response, "none"))

\* the job the function describes for a call with job_name
DescribedJob(job_name) == TRAINING_JOB_NAME

\* one call of download_artifacts(job_name, local_fname)
DownloadArtifacts(job_name, local_fname) ==
    /\ Len(downloads) < MaxDownloads
    /\ Fetch(job_name, local_fname, describe_training_job(DescribedJob(job_name)))
    /\ UNCHANGED TRAINING_JOB_NAME
    /\ UNCHANGED <<splitVars, poolVars, loaderVars, tunerVars, trainVars>>

\* the split is not running
SplitIdle ==
    /\ df = Frame(<<>>)
    /\ label_column = "class_id"
    /\ splits = SPLIT_RATIOS
    /\ upsampleGuard = FALSE
    /\ rng = 0
    /\ calls = <<>>

InitDownload ==
    /\ TRAINING_JOB_NAME \in JobNames
    /\ NoDownloads
    /\ SplitIdle
    /\ PoolIdle
    /\ LoaderIdle
    /\ TunerIdle
    /\ TrainIdle

NextDownload ==
    \E job_name \in JobNames, local_fname \in FileNames :
        DownloadArtifacts(job_name, local_fname)

SpecDownload == InitDownload /\ [][NextDownload]_vars

----------------------------------------------------------------------------
(* run_test of the autoscaling lab: a ThreadPool mapping predict over the   *)
(* requests. A worker thread takes a chunk of requests from the task queue  *)
(* and calls predict for each in turn; predict blocks until the endpoint    *)
(* answers or the call raises.                                              *)

MaxThreads == 2
MaxRequests == 5
MaxRuns == 2

\* the elapsed times a predict call can measure
ElapsedTimes == {1, 2}

\* a pool with a thread for every request
PoolSizePerRequest(threads) == threads + 1

\* pool = ThreadPool(max_threads): the number of worker threads
PoolSize(threads) == threads

\* chunksize, extra = divmod(len(iterable), len(pool) * 4), one more when
\* extra is not 0, and 0 for an empty iterable
Chunksize(n, size) ==
    IF n = 0 THEN 0
    ELSE IF n % (4 * size) = 0 THEN n \div (4 * size)
    ELSE n \div (4 * size) + 1

NumChunks(n, chunksize) ==
    IF chunksize = 0 THEN 0
    ELSE IF n % chunksize = 0 THEN n \div chunksize
    ELSE n \div chunksize + 1

\* the requests of chunk i (from 0): iterable[i*chunksize : (i+1)*chunksize]
ChunkItems(i, n, chunksize) ==
    [k \in 1..((IF (i + 1) * chunksize < n THEN (i + 1) * chunksize ELSE n) - i * chunksize)
        |-> i * chunksize + k]

\* the task batches pool.map puts on the queue, in order
Tasks(n, chunksize) ==
    [j \in 1..NumChunks(n, chunksize) |->
        [chunk |-> j - 1, items |-> ChunkItems(j - 1, n, chunksize)]]

\* the MapResult of pool.map over n requests
NewResult(n, chunksize) ==
    [number_left |-> NumChunks(n, chunksize), chunksize |-> chunksize, success |-> TRUE,
     value |-> [r \in 1..n |-> 0], ready |-> chunksize = 0]

\* the result is ready when no chunk is outstanding
AllDone(left) == left = 0

\* a result list that keeps no elapsed time
NotStored(value, i, chunksize, vals) == value

\* self._value[i*chunksize:(i+1)*chunksize] = result
Stored(value, i, chunksize, vals) ==
    [r \in DOMAIN value |->
        IF r \in (i * chunksize + 1)..(i * chunksize + Len(vals))
        THEN vals[r - i * chunksize]
        ELSE value[r]]

\* MapResult._set for a chunk whose predict calls all returned
SetSuccess(res, i, vals, fast) ==
    IF fast /\ ~res.success
    THEN res
    ELSE [res EXCEPT !.number_left = res.number_left - 1,
                     !.value = IF res.success THEN Stored(res.value, i, res.chunksize, vals)
                               ELSE res.value,
                     !.ready = AllDone(res.number_left - 1)]

\* a failed chunk taken for one that measured nothing
SetFailureSwallowed(res, fast) ==
    [res EXCEPT !.number_left = res.number_left - 1,
                !.ready = AllDone(res.number_left - 1)]

\* MapResult._set for a chunk in which a predict call raised: the result is
\* ready at once where map fails fast, else when every chunk has reported
SetFailure(res, fast) ==
    IF fast
    THEN [res EXCEPT !.success = FALSE, !.ready = TRUE]
    ELSE [res EXCEPT !.number_left = res.number_left - 1,
                     !.success = FALSE,
                     !.ready = AllDone(res.number_left - 1)]

RECURSIVE Sum(_)
\* np.sum(result)
Sum(values) == IF values = <<>> THEN 0 ELSE Head(values) + Sum(Tail(values))

\* a join that does not wait
NotJoined(ws) == TRUE

\* pool.join() returns when every worker thread has exited
Joined(ws) == ws.idle = 0 /\ ws.busy = {}

\* a request whose predict call has not ended
Pending == [state |-> "pending", elapsed |-> 0]

\* the predict call of request r ends with outcome o; it overtakes a
\* request before it when one of those has not ended yet
Ended(r, o) ==
    /\ completed' = [completed EXCEPT ![r] = o]
    /\ outOfOrder' = (outOfOrder \/ \E q \in 1..(r - 1) : completed[q] = Pending)

\* run_test(max_threads, max_requests) up to the wait inside pool.map; the
\* cell calls it again only after the call before returned
RunTest ==
    /\ pc = "idle"
    /\ runs < MaxRuns
    /\ pc' = "map"
    /\ runs' = runs + 1
    /\ outcome' = [status |-> "none"]
    /\ poolState' = "RUN"
    /\ workers' = [idle |-> PoolSize(max_threads), busy |-> {}, exited |-> 0]
    /\ taskqueue' = Tasks(max_requests, Chunksize(max_requests, PoolSize(max_threads)))
    /\ result' = NewResult(max_requests, Chunksize(max_requests, PoolSize(max_threads)))
    /\ issued' = [r \in 1..max_requests |-> 0]
    /\ completed' = [r \in 1..max_requests |-> Pending]
    /\ outOfOrder' = FALSE
    /\ UNCHANGED <<max_threads, max_requests, mapFailFast, inflight>>
    /\ UNCHANGED <<splitVars, downloadVars, loaderVars, tunerVars, trainVars>>

\* an idle worker takes the next chunk and calls predict for its first
\* request
TakeTask ==
    /\ workers.idle > 0
    /\ taskqueue # <<>>
    /\ workers' = [workers EXCEPT
            !.idle = workers.idle - 1,
            !.busy = workers.busy \cup
                {[chunk |-> Head(taskqueue).chunk, items |-> Head(taskqueue).items,
                  values |-> <<>>]}]
    /\ taskqueue' = Tail(taskqueue)
    /\ inflight' = inflight \cup {<<runs, Head(Head(taskqueue).items)>>}
    /\ issued' = [issued EXCEPT ![Head(Head(taskqueue).items)] = @ + 1]
    /\ UNCHANGED <<pc, max_threads, max_requests, mapFailFast, poolState, result,
                   completed, outOfOrder, runs, outcome>>
    /\ UNCHANGED <<splitVars, downloadVars, loaderVars, tunerVars, trainVars>>

\* the chunk of busy worker b goes on: predict is called for its next
\* request
NextRequest(b, e) ==
    /\ workers' = [workers EXCEPT !.busy = (workers.busy \ {b}) \cup
            {[chunk |-> b.chunk, items |-> Tail(b.items), values |-> Append(b.values, e)]}]
    /\ inflight' = (inflight \ {<<runs, Head(b.items)>>}) \cup {<<runs, b.items[2]>>}
    /\ issued' = [issued EXCEPT ![b.items[2]] = @ + 1]
    /\ result' = result

\* the chunk of busy worker b is done: its elapsed times go to the
\* MapResult and the worker is idle again
ChunkDone(b, e) ==
    /\ workers' = [workers EXCEPT !.busy = workers.busy \ {b},
                                  !.idle = workers.idle + 1]
    /\ inflight' = inflight \ {<<runs, Head(b.items)>>}
    /\ issued' = issued
    /\ result' = SetSuccess(result, b.chunk, Append(b.values, e), mapFailFast)

\* the endpoint answers the request of busy worker b: predict returns the
\* elapsed time e
Respond(b, e) ==
    /\ Ended(Head(b.items), [state |-> "returned", elapsed |-> e])
    /\ IF Len(b.items) > 1 THEN NextRequest(b, e) ELSE ChunkDone(b, e)
    /\ UNCHANGED <<pc, max_threads, max_requests, mapFailFast, poolState, taskqueue,
                   runs, outcome>>
    /\ UNCHANGED <<splitVars, downloadVars, loaderVars, tunerVars, trainVars>>

\* predict raises in busy worker b: the rest of its chunk is not run and
\* the exception goes to the MapResult
Fail(b) ==
    /\ Ended(Head(b.items), [state |-> "raised", elapsed |-> 0])
    /\ workers' = [workers EXCEPT !.busy = workers.busy \ {b},
                                  !.idle = workers.idle + 1]
    /\ inflight' = inflight \ {<<runs, Head(b.items)>>}
    /\ result' = SetFailure(result, mapFailFast)
    /\ UNCHANGED <<pc, max_threads, max_requests, mapFailFast, poolState, taskqueue,
                   issued, runs, outcome>>
    /\ UNCHANGED <<splitVars, downloadVars, loaderVars, tunerVars, trainVars>>

\* pool.map returns the list of elapsed times; pool.close()
MapDone ==
    /\ pc = "map"
    /\ result.ready /\ result.success
    /\ pc' = "join"
    /\ poolState' = "CLOSE"
    /\ UNCHANGED <<max_threads, max_requests, mapFailFast, taskqueue, workers, result,
                   inflight, issued, completed, outOfOrder, runs, outcome>>
    /\ UNCHANGED <<splitVars, downloadVars, loaderVars, tunerVars, trainVars>>

\* pool.map re-raises the exception of a predict call: run_test is left
\* at that line, with the pool neither closed nor joined, and the cell that
\* called it ends
MapRaises ==
    /\ pc = "map"
    /\ result.ready /\ ~result.success
    /\ pc' = "raised"
    /\ outcome' = [status |-> "raised"]
    /\ UNCHANGED <<max_threads, max_requests, mapFailFast, poolState, taskqueue, workers,
                   result, inflight, issued, completed, outOfOrder, runs>>
    /\ UNCHANGED <<splitVars, downloadVars, loaderVars, tunerVars, trainVars>>

\* a worker of a closed pool finds the queue empty and exits
WorkerExit ==
    /\ poolState = "CLOSE"
    /\ workers.idle > 0
    /\ taskqueue = <<>>
    /\ workers' = [workers EXCEPT !.idle = workers.idle - 1,
                                  !.exited = workers.exited + 1]
    /\ UNCHANGED <<pc, max_threads, max_requests, mapFailFast, poolState, taskqueue,
                   result, inflight, issued, completed, outOfOrder, runs, outcome>>
    /\ UNCHANGED <<splitVars, downloadVars, loaderVars, tunerVars, trainVars>>

\* pool.join() returns; run_test sums the elapsed times and returns the sum
Return ==
    /\ pc = "join"
    /\ Joined(workers)
    /\ pc' = "idle"
    /\ outcome' = [status |-> "ok", elapsedtime |-> Sum(result.value)]
    /\ UNCHANGED <<max_threads, max_requests, mapFailFast, poolState, taskqueue, workers,
                   result, inflight, issued, completed, outOfOrder, runs>>
    /\ UNCHANGED <<splitVars, downloadVars, loaderVars, tunerVars, trainVars>>

InitPool ==
    /\ max_threads \in 1..MaxThreads
    /\ max_requests \in 0..MaxRequests
    /\ mapFailFast \in BOOLEAN
    /\ NoPool
    /\ SplitIdle
    /\ DownloadIdle
    /\ LoaderIdle
    /\ TunerIdle
    /\ TrainIdle

NextPool ==
    \/ RunTest
    \/ TakeTask
    \/ \E b \in workers.busy : \E e \in ElapsedTimes : Respond(b, e)
    \/ \E b \in workers.busy : Fail(b)
    \/ MapDone
    \/ MapRaises
    \/ WorkerExit
    \/ Return

SpecPool == InitPool /\ [][NextPool]_vars

----------------------------------------------------------------------------
(* get_train_val_dataframes of the bird notebook *)

MaxImages == 3
MaxLabelRows == 2

\* the image ids of the manifests
PrettyNames == {1, 2}

\* file names as their parts around "/": directory, base name
ImageFiles ==
    { <<"087.Mallard", "Mallard_0130_76836.jpg">>,
      <<"013.Bobolink", "Bobolink_0001_9261.jpg">> }

EXCLUDE_IMAGE_LIST == { <<"087.Mallard", "Mallard_0130_76836.jpg">> }

CLASSES == {13, 17, 35, 47}

\* the class ids the label manifest can hold; 87 is not among CLASSES
OrigClassIds == {13, 17, 87}

SeqsUpTo(S, n) == UNION { [1..k -> S] : k \in 0..n }

\* the rows read_csv gives for IMAGE_FILE and for LABEL_FILE
ImageRows == [image_pretty_name : PrettyNames, image_file_name : ImageFiles]

LabelRows == [image_pretty_name : PrettyNames, orig_class_id : OrigClassIds]

\* a frame that keeps the images of the exclude list
ExcludedKept(rows) == rows

\* full_df[~full_df.image_file_name.isin(EXCLUDE_IMAGE_LIST)]
WithoutExcluded(rows) ==
    SelectSeq(rows, LAMBDA r : r.image_file_name \notin EXCLUDE_IMAGE_LIST)

\* the rows of the label manifest with the pretty name of image row l
LabelsFor(l, right) ==
    SelectSeq(right, LAMBDA r : r.image_pretty_name = l.image_pretty_name)

\* image row l joined with each of its label rows
JoinRows(l, matches) ==
    [k \in DOMAIN matches |->
        [image_pretty_name |-> l.image_pretty_name,
         image_file_name |-> l.image_file_name,
         orig_class_id |-> matches[k].orig_class_id]]

RECURSIVE Merge(_, _)
\* pd.merge(full_df, image_class_labels_df, on='image_pretty_name'): the
\* inner join, one row for every pair of rows with the same pretty name
Merge(left, right) ==
    IF left = <<>> THEN <<>>
    ELSE JoinRows(Head(left), LabelsFor(Head(left), right)) \o Merge(Tail(left), right)

\* a notebook that keeps every class whatever SAMPLE_ONLY says
AllClassesKept(rows, only) == rows

\* if SAMPLE_ONLY: full_df = full_df[full_df['orig_class_id'].isin(CLASSES)]
SampleClasses(rows, only) ==
    IF only THEN SelectSeq(rows, LAMBDA r : r.orig_class_id \in CLASSES) ELSE rows

\* the distinct class ids in the order the frame has them, unsorted
UnsortedUniqueClasses(rows) ==
    Unique([i \in DOMAIN rows |-> rows[i].orig_class_id])

\* sorted(full_df['orig_class_id'].drop_duplicates())
SortedUniqueClasses(rows) ==
    [k \in 1..Cardinality({ rows[i].orig_class_id : i \in DOMAIN rows }) |->
        CHOOSE c \in { rows[i].orig_class_id : i \in DOMAIN rows } :
            Cardinality({ d \in { rows[i].orig_class_id : i \in DOMAIN rows } : d < c }) = k - 1]

\* str(i) for the class numbers of the model
Str(i) == <<"1", "2", "3", "4", "5", "6", "7", "8", "9">>[i]

\* id_to_one_based: the class id at position i of the sorted list gets str(i)
IdToOneBased(sorted) ==
    [c \in Range(sorted) |-> Str(CHOOSE i \in DOMAIN sorted : sorted[i] = c)]

\* int(s) for the strings Str gives
int(str) == CHOOSE i \in 1..9 : Str(i) = str

\* ImageDataset.__getitem__: label = int(class_id) - 1
ImageLabel(r) == int(r.class_id) - 1

\* get_class_name: fn.split('/')[0]
get_class_name(fn) == fn[1]

\* full_df after class_id and class_name are added, the index is reset and
\* image_pretty_name is dropped
FullFrame(rows, ids) ==
    [columns |-> {"image_file_name", "orig_class_id", "class_id", "class_name"},
     rows |-> [i \in DOMAIN rows |->
        [idx |-> i - 1,
         image_file_name |-> rows[i].image_file_name,
         orig_class_id |-> rows[i].orig_class_id,
         class_id |-> ids[rows[i].orig_class_id],
         class_name |-> get_class_name(rows[i].image_file_name)]]]

\* the rows get_train_val_dataframes keeps of the two manifests
SelectedRows(images, labels, only) ==
    SampleClasses(Merge(WithoutExcluded(images), labels), only)

\* the frame handed to split_to_train_val_test
BuildFrame(rows) == FullFrame(rows, IdToOneBased(SortedUniqueClasses(rows)))

\* reset_index(inplace=True, drop=True)
ResetIndex(rows) == [i \in DOMAIN rows |-> [rows[i] EXCEPT !.idx = i - 1]]

\* the three frames returned, or the exception of the split
LoaderReturn(out) ==
    IF out.status = "ok"
    THEN [status |-> "ok", train |-> ResetIndex(out.train),
          val |-> ResetIndex(out.val), test |-> ResetIndex(out.test)]
    ELSE [status |-> out.status, train |-> <<>>, val |-> <<>>, test |-> <<>>]

LoadDelivered(out) ==
    /\ loaded' = LoaderReturn(out)
    /\ rng' = out.rng

\* one call of get_train_val_dataframes()
GetTrainValDataframes ==
    /\ loaded.status = "none"
    /\ LoadDelivered(split_to_train_val_test(
            BuildFrame(SelectedRows(images_txt, labels_txt, SAMPLE_ONLY)),
            "class_id", SPLIT_RATIOS, rng, upsampleGuard))
    /\ UNCHANGED <<images_txt, labels_txt, SAMPLE_ONLY>>
    /\ UNCHANGED <<df, label_column, splits, upsampleGuard, calls>>
    /\ UNCHANGED <<downloadVars, poolVars, tunerVars, trainVars>>

InitLoader ==
    /\ images_txt \in SeqsUpTo(ImageRows, MaxImages)
    /\ labels_txt \in SeqsUpTo(LabelRows, MaxLabelRows)
    /\ SAMPLE_ONLY \in BOOLEAN
    /\ NotLoaded
    /\ df = Frame(<<>>)
    /\ label_column = "class_id"
    /\ splits = SPLIT_RATIOS
    /\ upsampleGuard = FALSE
    /\ rng \in 0..1
    /\ calls = <<>>
    /\ DownloadIdle
    /\ PoolIdle
    /\ TunerIdle
    /\ TrainIdle

NextLoader == GetTrainValDataframes

SpecLoader == InitLoader /\ [][NextLoader]_vars

----------------------------------------------------------------------------
(* The tuning analysis of the hyperparameter tuning notebook *)

MaxJobs == 3

\* -float('inf'), the objective value of a job that has reported no metric
NegInf == -1000

\* the values FinalObjectiveValue takes in the model
ObjectiveValues == {NegInf, 1, 2}

ObjectiveTypes == {"Maximize", "Minimize"}

\* the rows of the analytics frame, one per training job
NamedJobs(values) ==
    [i \in DOMAIN values |-> [TrainingJobName |-> i, FinalObjectiveValue |-> values[i]]]

\* is_minimize = (...['HyperParameterTuningJobObjective']['Type'] != 'Maximize')
IsMinimize(type) == type # "Maximize"

\* the cell that describes the tuning job
DescribeTuningJob ==
    /\ ~is_minimize.bound
    /\ is_minimize' = [bound |-> TRUE, value |-> IsMinimize(objective_type)]
    /\ UNCHANGED <<objective_type, analytics_df, jobs_df>>
    /\ UNCHANGED <<splitVars, downloadVars, poolVars, loaderVars, trainVars>>

\* full_df[full_df['FinalObjectiveValue'] > -float('inf')]
ValidJobs(full) == SelectSeq(full, LAMBDA r : r.FinalObjectiveValue > NegInf)

\* rows in ascending, or in descending, order of FinalObjectiveValue
InOrder(rows, ascending) ==
    \A i, j \in DOMAIN rows :
        i < j => IF ascending
                 THEN rows[i].FinalObjectiveValue <= rows[j].FinalObjectiveValue
                 ELSE rows[i].FinalObjectiveValue >= rows[j].FinalObjectiveValue

\* a table sorted highest value first whatever the objective
NeverAscending(minimize) == FALSE

\* ascending=is_minimize
SortAscending(minimize) == minimize

\* df.sort_values('FinalObjectiveValue', ascending=...): the orders of the
\* rows the sort can give; rows of equal value come in any order
sort_values(rows, ascending) ==
    { s \in [DOMAIN rows -> Range(rows)] :
        Range(s) = Range(rows) /\ InOrder(s, ascending) }

\* df after the analysis cell, for a frame that has rows
Analyzed(valid, minimize) ==
    IF Len(valid) > 0
    THEN { [bound |-> TRUE, rows |-> s] :
             s \in sort_values(valid, SortAscending(minimize)) }
    ELSE { [bound |-> TRUE, rows |-> valid] }

\* the analysis cell; with an empty analytics frame df is never assigned
AnalyzeJobs ==
    /\ is_minimize.bound
    /\ ~jobs_df.bound
    /\ IF Len(analytics_df) > 0
       THEN jobs_df' \in Analyzed(ValidJobs(analytics_df), is_minimize.value)
       ELSE jobs_df' = jobs_df
    /\ UNCHANGED <<objective_type, analytics_df, is_minimize>>
    /\ UNCHANGED <<splitVars, downloadVars, poolVars, loaderVars, trainVars>>

InitTuner ==
    /\ objective_type \in ObjectiveTypes
    /\ analytics_df \in { NamedJobs(v) : v \in SeqsUpTo(ObjectiveValues, MaxJobs) }
    /\ NoAnalysis
    /\ SplitIdle
    /\ DownloadIdle
    /\ PoolIdle
    /\ LoaderIdle
    /\ TrainIdle

NextTuner ==
    \/ DescribeTuningJob
    \/ AnalyzeJobs

SpecTuner == InitTuner /\ [][NextTuner]_vars

----------------------------------------------------------------------------
(* The training loop of the bird notebook *)

MaxTrainBatches == 3
MaxValBatches == 1

\* epochs = 5 and print_every = 3 of the training cell
epochs == 5

print_every == 3

\* the values loss.item() and batch_loss.item() take in the model
Losses == {1, 2}

\* what a validation batch gives: batch_loss.item() and the mean of equals.
\* One value each: the reports store them, and nothing the loop does
\* depends on them.
ValBatches == { [batch_loss |-> 2, equals |-> 1] }

\* the cell's first lines: steps = 0, running_loss = 0, the three lists empty
StartTraining ==
    /\ trainPc \in {"idle", "done", "raised"}
    /\ trainPc' = "loop"
    /\ epoch' = 0
    /\ batch' = 0
    /\ steps' = 0
    /\ running_loss' = 0
    /\ train_losses' = <<>>
    /\ test_losses' = <<>>
    /\ test_accuracies' = <<>>
    /\ evals' = <<>>
    /\ UNCHANGED <<trainloader, valloader>>
    /\ UNCHANGED <<splitVars, downloadVars, poolVars, loaderVars, tunerVars>>

\* a report after every step
ReportAlways(n) == TRUE

\* if steps % print_every == 0
ReportDue(n) == n % print_every = 0

\* running_loss = 0
ResetRunningLoss(loss) == 0

\* test_loss and accuracy summed over the batches of valloader
ValLoss(seen) == Sum([i \in DOMAIN seen |-> seen[i].batch_loss])

ValAccuracy(seen) == Sum([i \in DOMAIN seen |-> seen[i].equals])

\* a quotient num / den of the cell, kept as its two parts
Quotient(num, den) == [num |-> num, den |-> den]

\* the validation block with the batches seen, and the report
Report(n, loss, seen) ==
    /\ test_accuracies' = Append(test_accuracies, Quotient(ValAccuracy(seen), valloader))
    /\ train_losses' = Append(train_losses, Quotient(loss, trainloader))
    /\ test_losses' = Append(test_losses, Quotient(ValLoss(seen), valloader))
    /\ running_loss' = ResetRunningLoss(loss)
    /\ evals' = Append(evals, n)
    /\ trainPc' = trainPc

\* accuracy/len(valloader) with an empty valloader: ZeroDivisionError before
\* anything is appended
ReportRaises(n, loss) ==
    /\ evals' = Append(evals, n)
    /\ running_loss' = loss
    /\ trainPc' = "raised"
    /\ UNCHANGED <<train_losses, test_losses, test_accuracies>>

\* a step without a report
NoReport(loss) ==
    /\ running_loss' = loss
    /\ UNCHANGED <<train_losses, test_losses, test_accuracies, evals, trainPc>>

\* the body of the inner loop for one batch whose loss.item() is loss
StepBody(n, loss) ==
    IF ReportDue(n)
    THEN IF valloader = 0
         THEN ReportRaises(n, loss)
         ELSE \E seen \in [1..valloader -> ValBatches] : Report(n, loss, seen)
    ELSE NoReport(loss)

\* one iteration of "for inputs, labels in trainloader"
TrainBatch ==
    /\ trainPc = "loop"
    /\ batch < trainloader
    /\ batch' = batch + 1
    /\ steps' = steps + 1
    /\ \E loss \in Losses : StepBody(steps + 1, running_loss + loss)
    /\ UNCHANGED <<trainloader, valloader, epoch>>
    /\ UNCHANGED <<splitVars, downloadVars, poolVars, loaderVars, tunerVars>>

\* the trainloader is exhausted and another epoch follows
NextEpoch ==
    /\ trainPc = "loop"
    /\ batch = trainloader
    /\ epoch + 1 < epochs
    /\ epoch' = epoch + 1
    /\ batch' = 0
    /\ UNCHANGED <<trainloader, valloader, trainPc, steps, running_loss,
                   train_losses, test_losses, test_accuracies, evals>>
    /\ UNCHANGED <<splitVars, downloadVars, poolVars, loaderVars, tunerVars>>

\* the last epoch is over
EndTraining ==
    /\ trainPc = "loop"
    /\ batch = trainloader
    /\ epoch + 1 = epochs
    /\ trainPc' = "done"
    /\ UNCHANGED <<trainloader, valloader, epoch, batch, steps, running_loss,
                   train_losses, test_losses, test_accuracies, evals>>
    /\ UNCHANGED <<splitVars, downloadVars, poolVars, loaderVars, tunerVars>>

InitTrain ==
    /\ trainloader \in 0..MaxTrainBatches
    /\ valloader \in 0..MaxValBatches
    /\ NotTraining
    /\ SplitIdle
    /\ DownloadIdle
    /\ PoolIdle
    /\ LoaderIdle
    /\ TunerIdle

NextTrain ==
    \/ StartTraining
    \/ TrainBatch
    \/ NextEpoch
    \/ EndTraining

SpecTrain == InitTrain /\ [][NextTrain]_vars

----------------------------------------------------------------------------
(* Properties of split_to_train_val_test *)

CountLabel(rows, lbl) == Cardinality({ i \in DOMAIN rows : rows[i].class_id = lbl })

HasLabel(rows, lbl) == CountLabel(rows, lbl) >= 1

\* the ratio contract: three non-negative ratios that sum to 1, train > 0
ValidRatios(s) ==
    /\ s[1] > 0 /\ s[2] >= 0 /\ s[3] >= 0
    /\ s[1] + s[2] + s[3] = RatioDen

AllPositive(s) == s[1] > 0 /\ s[2] > 0 /\ s[3] > 0

Returned(c) == c.status = "ok"

\* train, val and test hold every row of the input once, and nothing else
Partitioned(c) ==
    /\ \A r \in Range(df.rows) :
           Count(r, c.train) + Count(r, c.val) + Count(r, c.test) = 1
    /\ Range(c.train) \cup Range(c.val) \cup Range(c.test) \subseteq Range(df.rows)

C3_TenTenScenario ==
    \A i \in DOMAIN calls :
        (/\ splits = SPLIT_RATIOS
         /\ Len(df.rows) = 20
         /\ CountLabel(df.rows, "A") = 10
         /\ CountLabel(df.rows, "B") = 10)
        => /\ Returned(calls[i])
           /\ Len(calls[i].train) = 14
           /\ CountLabel(calls[i].train, "A") = 7 /\ CountLabel(calls[i].train, "B") = 7
           /\ Len(calls[i].val) = 4
           /\ CountLabel(calls[i].val, "A") = 2 /\ CountLabel(calls[i].val, "B") = 2
           /\ Len(calls[i].test) = 2
           /\ CountLabel(calls[i].test, "A") = 1 /\ CountLabel(calls[i].test, "B") = 1

C3_Witness ==
    /\ Len(calls) = MaxCalls
    /\ splits = SPLIT_RATIOS
    /\ CountLabel(df.rows, "A") = 10 /\ CountLabel(df.rows, "B") = 10
    /\ Len(calls[1].train) = 14

Within1(x, y) == x - y \in {-1, 0, 1}

\* C4: a class of size 100 with ratios (0.7, 0.2, 0.1) gets 70, 20 and 10
\* items in train, validation and test, each within 1.
C4_RatioFidelity ==
    \A i \in DOMAIN calls : \A l \in Labels :
        (splits = SPLIT_RATIOS /\ CountLabel(df.rows, l) = 100)
        => /\ Returned(calls[i])
           /\ Within1(CountLabel(calls[i].train, l), 70)
           /\ Within1(CountLabel(calls[i].val, l), 20)
           /\ Within1(CountLabel(calls[i].test, l), 10)

C4_Witness ==
    \E i \in DOMAIN calls :
        /\ splits = SPLIT_RATIOS
        /\ CountLabel(df.rows, "A") = 100
        /\ CountLabel(df.rows, "B") = 3
        /\ CountLabel(calls[i].train, "A") = 70

SomeNegative(s) == s[1] < 0 \/ s[2] < 0 \/ s[3] < 0

C7_ContractRatiosAccepted ==
    \A i \in DOMAIN calls :
        (ValidRatios(splits) /\ label_column \in df.columns /\ UniqueIndex(df))
        => /\ Returned(calls[i])
           /\ Partitioned(calls[i])
           /\ splits[1] = RatioDen => Len(calls[i].train) = Len(df.rows)

\* C8: calls with the same dataset, label column and ratios in a process whose
\* generator was seeded once (rng of the initial state) return the same
\* train, validation and test in the same order.
C8_RepeatedCallsAgree ==
    \A i, j \in DOMAIN calls :
        (ValidRatios(splits) /\ label_column \in df.columns /\ UniqueIndex(df))
        => calls[i] = calls[j]

C10_UnknownLabelField ==
    [][label_column \notin df.columns =>
           /\ calls'[Len(calls')].status = "KeyError"
           /\ calls'[Len(calls')].train = <<>>
           /\ calls'[Len(calls')].val = <<>>
           /\ calls'[Len(calls')].test = <<>>
           /\ rng' = rng]_vars

C10_Witness ==
    /\ label_column \notin df.columns
    /\ Len(df.rows) >= 3
    /\ Len(calls) >= 1
    /\ calls[1].status = "KeyError"

\* the number of rows of label lbl in train, validation and test of call c
SubsetCounts(c, lbl) ==
    <<CountLabel(c.train, lbl), CountLabel(c.val, lbl), CountLabel(c.test, lbl)>>

\* every input row of label lbl is in exactly one output of call c, once
LabelPartitioned(c, lbl) ==
    \A r \in Range(df.rows) :
        r.class_id = lbl => Count(r, c.train) + Count(r, c.val) + Count(r, c.test) = 1

Distance(x, y) == IF x >= y THEN x - y ELSE y - x

\* k is num/den (den # 0) rounded to the nearest integer, a tie going to the
\* even one
RoundsTo(k, num, den) ==
    /\ 2 * Distance(k * den, num) <= Distance(den, 0)
    /\ 2 * Distance(k * den, num) = Distance(den, 0) => k % 2 = 0

\* the sizes <<t, v, s>> of train, validation and test for a group of n rows
GroupSizes(sizes, n, s) ==
    /\ RoundsTo(sizes[1], s[1] * n, RatioDen)
    /\ RoundsTo(sizes[3], s[3] * (n - sizes[1]), s[2] + s[3])
    /\ sizes[2] = n - sizes[1] - sizes[3]

\* C16 as stated: in every call that returns, each label group of n rows has
\* t = round(train_ratio * n) rows in train, s = round(test_ratio /
\* (val_ratio + test_ratio) * (n - t)) rows in test, both rounded to the
\* nearest integer with ties to the even one, and n - t - s rows in
\* validation, whatever the other groups are.
C16_GroupSizesExact ==
    \A i \in DOMAIN calls : \A l \in Labels :
        (/\ Returned(calls[i]) /\ label_column = "class_id" /\ UniqueIndex(df)
         /\ HasLabel(df.rows, l))
        => /\ splits[2] + splits[3] # 0
           /\ GroupSizes(SubsetCounts(calls[i], l), CountLabel(df.rows, l), splits)

\* C16 amended: the sizes are those of C16 for every group whose product
\* train_ratio * n is not a tie that doubles miss; a group of 45 rows with
\* train ratio 0.7 has t = 31 (0.7 * 45 = 31.499999999999996 in doubles, not
\* the tie 31.5 that would round to 32), and s and the validation size
\* follow from that t as before.
C16_GroupSizes ==
    \A i \in DOMAIN calls : \A l \in Labels :
        (/\ Returned(calls[i]) /\ label_column = "class_id" /\ UniqueIndex(df)
         /\ HasLabel(df.rows, l))
        => /\ splits[2] + splits[3] # 0
           /\ IF splits[1] = 14 /\ CountLabel(df.rows, l) = 45
              THEN /\ SubsetCounts(calls[i], l)[1] = 31
                   /\ RoundsTo(SubsetCounts(calls[i], l)[3],
                               splits[3] * 14, splits[2] + splits[3])
                   /\ SubsetCounts(calls[i], l)[2] = 14 - SubsetCounts(calls[i], l)[3]
              ELSE GroupSizes(SubsetCounts(calls[i], l), CountLabel(df.rows, l), splits)

C16_Witness ==
    \E i \in DOMAIN calls :
        /\ Returned(calls[i]) /\ label_column = "class_id" /\ UniqueIndex(df)
        /\ splits = SPLIT_RATIOS
        /\ CountLabel(df.rows, "A") = 45 /\ CountLabel(df.rows, "B") = 3
        /\ SubsetCounts(calls[i], "A") = <<31, 9, 5>>
        /\ SubsetCounts(calls[i], "B") = <<2, 1, 0>>

\* the sizes of sampling the three fractions of a group of n rows directly
DirectSizes(n, s) ==
    <<SampleSize(s[1], RatioDen, n), SampleSize(s[2], RatioDen, n),
      SampleSize(s[3], RatioDen, n)>>

\* C17 as stated: for ratios of the contract with val + test > 0, the sizes
\* of train, validation and test of every label group equal the sizes of
\* rounding train_ratio * n, val_ratio * n and test_ratio * n directly.
C17_SizesEqualDirect ==
    \A i \in DOMAIN calls : \A l \in Labels :
        (/\ ValidRatios(splits) /\ splits[2] + splits[3] > 0
         /\ label_column = "class_id" /\ UniqueIndex(df))
        => /\ Returned(calls[i])
           /\ SubsetCounts(calls[i], l) = DirectSizes(CountLabel(df.rows, l), splits)

\* C17 amended: the train size of every label group equals the directly
\* rounded one; the validation and test sizes are within 1 of the directly
\* rounded ones; the three sequential sizes always sum to n.
C17_SizesNearDirect ==
    \A i \in DOMAIN calls : \A l \in Labels :
        (/\ ValidRatios(splits) /\ splits[2] + splits[3] > 0
         /\ label_column = "class_id" /\ UniqueIndex(df))
        => /\ Returned(calls[i])
           /\ SubsetCounts(calls[i], l)[1] = DirectSizes(CountLabel(df.rows, l), splits)[1]
           /\ Within1(SubsetCounts(calls[i], l)[2], DirectSizes(CountLabel(df.rows, l), splits)[2])
           /\ Within1(SubsetCounts(calls[i], l)[3], DirectSizes(CountLabel(df.rows, l), splits)[3])
           /\ SubsetCounts(calls[i], l)[1] + SubsetCounts(calls[i], l)[2]
                  + SubsetCounts(calls[i], l)[3] = CountLabel(df.rows, l)

\* a group of 2 rows: sequential 1 + 1 + 0, direct 1 + 0 + 0
C17_Witness ==
    \E i \in DOMAIN calls :
        /\ splits = SPLIT_RATIOS /\ label_column = "class_id" /\ UniqueIndex(df)
        /\ CountLabel(df.rows, "A") = 2
        /\ SubsetCounts(calls[i], "A") = <<1, 1, 0>>
        /\ DirectSizes(2, splits) = <<1, 0, 0>>

In(r, rows) == Count(r, rows) >= 1

\* another row of r's label group that carries r's index label and was
\* sampled into train or test by call c
ShadowedBy(r, c) ==
    \E q \in Range(df.rows) :
        /\ q # r /\ q.idx = r.idx /\ q.class_id = r.class_id
        /\ (In(q, c.train) \/ In(q, c.test))

\* C18: in every call that returns, no row is delivered twice, and a row
\* that was not sampled into train or test is in validation exactly when no
\* other row of its group with the same index label was sampled into train
\* or test; otherwise it is in none of the three outputs. With unique index
\* labels no row is lost.
C18_DuplicateIndexLosesRows ==
    \A i \in DOMAIN calls : \A r \in Range(df.rows) :
        (Returned(calls[i]) /\ label_column = "class_id")
        => /\ Count(r, calls[i].train) + Count(r, calls[i].val)
                  + Count(r, calls[i].test) <= 1
           /\ In(r, calls[i].val)
                  <=> (/\ ~In(r, calls[i].train) /\ ~In(r, calls[i].test)
                       /\ ~ShadowedBy(r, calls[i]))
           /\ UniqueIndex(df) => ~ShadowedBy(r, calls[i])

\* a row that was not sampled is in none of the outputs
C18_Witness ==
    \E i \in DOMAIN calls : \E r \in Range(df.rows) :
        /\ Returned(calls[i]) /\ label_column = "class_id"
        /\ splits = SPLIT_RATIOS /\ ~UniqueIndex(df)
        /\ ~In(r, calls[i].train) /\ ~In(r, calls[i].val) /\ ~In(r, calls[i].test)
        /\ ShadowedBy(r, calls[i])

----------------------------------------------------------------------------
(* Properties of download_artifacts *)

\* C12: every call of download_artifacts describes the training job named
\* by its job_name argument and, when that job exists, fetches that job's
\* model artifacts into local_fname.
C12_DownloadsNamedJob ==
    \A i \in DOMAIN downloads :
        /\ downloads[i].described = downloads[i].job_name
        /\ downloads[i].job_name \in TrainingJobs
               => /\ downloads[i].status = "ok"
                  /\ downloads[i].fetched = ParseS3Uri(S3ModelArtifacts(downloads[i].job_name))

----------------------------------------------------------------------------
(* Properties of run_test *)

\* C13: at every moment the endpoint is serving at most max_threads predict
\* calls of run_test(max_threads, max_requests).
C13_InFlightBounded == Cardinality(inflight) <= max_threads

C13_Witness ==
    /\ pc = "map"
    /\ max_threads = MaxThreads /\ max_requests = MaxRequests
    /\ Cardinality(inflight) = MaxThreads
    /\ taskqueue # <<>>

\* the elapsed times the predict calls measured, by request
Measured == [r \in DOMAIN completed |-> completed[r].elapsed]

\* C14: when run_test returns, predict was called exactly once for each of
\* the max_requests requests, every call returned, and the value returned
\* is the sum of the elapsed times of all of them, in whatever order the
\* calls ended.
C14_EveryRequestOnceAndSummed ==
    outcome.status = "ok"
    => /\ DOMAIN issued = 1..max_requests
       /\ \A r \in 1..max_requests :
              issued[r] = 1 /\ completed[r].state = "returned"
       /\ outcome.elapsedtime = Sum(Measured)

\* a call that returned although its requests ended out of order and took
\* different times
C14_Witness ==
    /\ outcome.status = "ok"
    /\ max_requests = MaxRequests /\ max_threads = MaxThreads
    /\ outOfOrder
    /\ completed[1].elapsed = 2 /\ completed[2].elapsed = 1
    /\ outcome.elapsedtime = MaxRequests + 1

\* C15: no request is ever issued twice; once a predict call has raised,
\* run_test neither closes and joins the pool nor returns a sum: it is left
\* by the exception, and the caller gets no elapsed-time total.
C15_NoRetryNoPartialSum ==
    /\ \A r \in DOMAIN issued : issued[r] <= 1
    /\ (\E r \in DOMAIN completed : completed[r].state = "raised")
           => pc \in {"map", "raised"} /\ outcome.status # "ok"
    /\ pc = "raised"
           <=> (outcome.status = "raised" /\ DOMAIN outcome = {"status"})
    /\ pc = "raised" => \E r \in DOMAIN completed : completed[r].state = "raised"

\* the call was left by the exception although other requests had returned
\* an elapsed time; every request was issued once or never
C15_Witness ==
    /\ pc = "raised"
    /\ max_requests = MaxRequests
    /\ inflight = {} /\ taskqueue = <<>>
    /\ \E r, q \in DOMAIN completed :
           /\ completed[r].state = "raised" /\ issued[r] = 1
           /\ completed[q].state = "returned"
    /\ \E r \in DOMAIN issued : issued[r] = 0

\* C19: when run_test has returned, every request it issued has ended, the
\* pool is closed and all its worker threads have exited; the requests in
\* flight at any moment belong to the call in progress, so the calls of the
\* load loop never overlap.
C19_ReturnsAfterAllCompleted ==
    /\ outcome.status = "ok"
           => /\ pc = "idle"
              /\ inflight = {} /\ taskqueue = <<>>
              /\ poolState = "CLOSE"
              /\ workers = [idle |-> 0, busy |-> {}, exited |-> max_threads]
              /\ \A r \in DOMAIN completed : completed[r] # Pending
    /\ pc = "idle" => inflight = {}
    /\ \A x \in inflight : x[1] = runs

\* the second call of the loop has requests in flight
C19_Witness ==
    /\ runs = MaxRuns
    /\ pc = "map"
    /\ Cardinality(inflight) = MaxThreads
    /\ \E r \in DOMAIN completed : completed[r].state = "returned"

----------------------------------------------------------------------------
(* Properties of get_train_val_dataframes *)

\* the file names of the rows
FileNamesOf(rows) == { rows[i].image_file_name : i \in DOMAIN rows }

\* C20: whatever the two manifests hold, no row of the train, validation or
\* test frame that get_train_val_dataframes returns has a file name of
\* EXCLUDE_IMAGE_LIST.
C20_ExcludedImagesAbsent ==
    loaded.status = "ok"
    => (FileNamesOf(loaded.train) \cup FileNamesOf(loaded.val)
           \cup FileNamesOf(loaded.test)) \cap EXCLUDE_IMAGE_LIST = {}

\* the image manifest lists an excluded image whose class is kept, next to
\* images that are returned
C20_Witness ==
    /\ loaded.status = "ok"
    /\ \E i \in DOMAIN images_txt : \E j \in DOMAIN labels_txt :
           /\ images_txt[i].image_file_name \in EXCLUDE_IMAGE_LIST
           /\ labels_txt[j].image_pretty_name = images_txt[i].image_pretty_name
           /\ labels_txt[j].orig_class_id \in CLASSES
    /\ loaded.train # <<>> /\ loaded.val # <<>>

\* the rows of the three returned frames, train first
ReturnedRows == loaded.train \o loaded.val \o loaded.test

\* a manifest that lists every pretty name at most once
UniqueNames(rows) ==
    \A i, j \in DOMAIN rows :
        rows[i].image_pretty_name = rows[j].image_pretty_name => i = j

\* the images of the manifest with file name f that the label manifest puts
\* in class c
ImagesOf(f, c) ==
    { i \in DOMAIN images_txt :
        /\ images_txt[i].image_file_name = f
        /\ \E j \in DOMAIN labels_txt :
               /\ labels_txt[j].image_pretty_name = images_txt[i].image_pretty_name
               /\ labels_txt[j].orig_class_id = c }

\* the returned rows with file name f and original class c
ReturnedOf(f, c) ==
    { k \in DOMAIN ReturnedRows :
        ReturnedRows[k].image_file_name = f /\ ReturnedRows[k].orig_class_id = c }

\* C21: with SAMPLE_ONLY set, every returned row has an original class id of
\* CLASSES; and when the manifests list every image once and give it one
\* class, each image that is not excluded and whose class is in CLASSES is
\* returned exactly once: the returned rows are as many as those images,
\* file name by file name and class by class.
C21_SampleOnlyKeepsClasses ==
    (loaded.status = "ok" /\ SAMPLE_ONLY)
    => /\ \A k \in DOMAIN ReturnedRows : ReturnedRows[k].orig_class_id \in CLASSES
       /\ (UniqueNames(images_txt) /\ UniqueNames(labels_txt))
              => /\ \A f \in ImageFiles \ EXCLUDE_IMAGE_LIST : \A c \in CLASSES :
                        Cardinality(ReturnedOf(f, c)) = Cardinality(ImagesOf(f, c))
                 /\ Len(ReturnedRows) =
                        Cardinality(UNION { ImagesOf(f, c) :
                            f \in ImageFiles \ EXCLUDE_IMAGE_LIST, c \in CLASSES })

\* one image of a class of CLASSES is returned, one of class 87 is not
C21_Witness ==
    /\ loaded.status = "ok" /\ SAMPLE_ONLY
    /\ UniqueNames(images_txt) /\ UniqueNames(labels_txt)
    /\ \E f \in ImageFiles \ EXCLUDE_IMAGE_LIST :
           ImagesOf(f, 13) # {} /\ ImagesOf(f, 87) # {}
    /\ Len(ReturnedRows) = 1
    /\ ReturnedRows[1].orig_class_id = 13

\* the original class ids of the returned rows
ClassesPresent == { ReturnedRows[k].orig_class_id : k \in DOMAIN ReturnedRows }

\* C22: in the returned frames the k original class ids present carry the
\* class ids '1' .. 'k' in ascending order of original id: a row's class id is
\* one more than the number of smaller original ids present, two rows have
\* the same class id exactly when they have the same original id, a smaller
\* original id gives a smaller label, and the labels int(class_id) - 1 that
\* ImageDataset computes are exactly 0 .. k-1.
C22_ClassRenumbering ==
    loaded.status = "ok"
    => /\ \A k \in DOMAIN ReturnedRows :
           /\ ReturnedRows[k].class_id =
                  Str(1 + Cardinality({ d \in ClassesPresent :
                                          d < ReturnedRows[k].orig_class_id }))
           /\ ImageLabel(ReturnedRows[k]) \in 0..(Cardinality(ClassesPresent) - 1)
       /\ \A k, m \in DOMAIN ReturnedRows :
           /\ (ReturnedRows[k].class_id = ReturnedRows[m].class_id)
                  <=> (ReturnedRows[k].orig_class_id = ReturnedRows[m].orig_class_id)
           /\ ReturnedRows[k].orig_class_id < ReturnedRows[m].orig_class_id
                  => ImageLabel(ReturnedRows[k]) < ImageLabel(ReturnedRows[m])
       /\ { ImageLabel(ReturnedRows[k]) : k \in DOMAIN ReturnedRows }
              = 0..(Cardinality(ClassesPresent) - 1)

\* class 87 comes before class 13 in the frame and gets the higher number
C22_Witness ==
    /\ loaded.status = "ok" /\ ~SAMPLE_ONLY
    /\ ClassesPresent = {13, 87}
    /\ \E i, j \in DOMAIN images_txt : \E a, b \in DOMAIN labels_txt :
           /\ i < j
           /\ labels_txt[a].image_pretty_name = images_txt[i].image_pretty_name
           /\ labels_txt[b].image_pretty_name = images_txt[j].image_pretty_name
           /\ labels_txt[a].orig_class_id = 87 /\ labels_txt[b].orig_class_id = 13
    /\ \E k, m \in DOMAIN ReturnedRows :
           /\ ReturnedRows[k].orig_class_id = 13 /\ ReturnedRows[k].class_id = "1"
           /\ ReturnedRows[m].orig_class_id = 87 /\ ImageLabel(ReturnedRows[m]) = 1

----------------------------------------------------------------------------
(* Properties of the tuning analysis *)

\* the table holds the jobs with a valid objective value, each once
TableOfValidJobs ==
    /\ Len(jobs_df.rows) = Len(ValidJobs(analytics_df))
    /\ Range(jobs_df.rows) = Range(ValidJobs(analytics_df))

----------------------------------------------------------------------------
(* Properties of the training loop *)

\* the step counts up to steps that are multiples of print_every
ReportSteps == { n \in 1..steps : n % print_every = 0 }

\* C24: while the training loop runs and when it is over, validation has run
\* exactly at the values of the step counter that are multiples of
\* print_every, once at each, the counter running on from epoch to epoch;
\* train_losses, test_losses and test_accuracies have the same length,
\* steps div print_every; and after a step with a report running_loss is 0.
C24_ReportsEveryPrintEvery ==
    trainPc # "raised"
    => /\ Range(evals) = ReportSteps
       /\ Len(evals) = Cardinality(ReportSteps)
       /\ Len(train_losses) = steps \div print_every
       /\ Len(test_losses) = steps \div print_every
       /\ Len(test_accuracies) = steps \div print_every
       /\ (steps > 0 /\ steps % print_every = 0) => running_loss = 0
       /\ steps = epoch * trainloader + batch

\* with two batches an epoch the reports come at step 3, in the second
\* epoch, and at step 6, at the end of the third
C24_Witness ==
    /\ trainPc = "loop"
    /\ trainloader = 2
    /\ epoch = 2 /\ batch = 2
    /\ steps = 6
    /\ evals = <<3, 6>>
    /\ Len(train_losses) = 2 /\ Len(test_losses) = 2 /\ Len(test_accuracies) = 2
    /\ running_loss = 0

====
